---- MODULE Spec2Model ----
(***************************************************************************)
(* Tag reconciliation between the Docker registry and the Django store:    *)
(* repositories/services/sync_service.py (SyncService, SyncStats), the     *)
(* Tag / Repository tables of repositories/models.py and the registry      *)
(* answers of repositories/clients/registry_client.py.                     *)
(***************************************************************************)
EXTENDS Integers, Sequences, FiniteSets, TLC

\* ------------------------------------------------------------------ bounds
\* timezone.now() takes the values 0..MaxClock
MaxClock == 1
\* runs of sync_repository_tags made on one service, a Repository row created first counting as one
MaxSyncs == 2
\* Tag rows that exist without ever having been synced (created through the ORM)
MaxUserTags == 1
\* Repository rows created through the ORM
MaxRepoCreates == 1

\* ------------------------------------------------------------ value spaces
None == "None"
\* last_synced of a row no sync has touched
Never == -1
Services == {1}
TagNames == {"v1", "v2"}

\* Python dict.get(key, default)
Get(d, key, default) == IF key \in DOMAIN d THEN d[key] ELSE default

\* A string that is split is a sequence of tokens in which "." is a token of its own.
DockerV2 == <<"application/vnd", ".", "docker", ".", "distribution", ".", "manifest", ".", "v2+json">>
OciV1 == <<"application/vnd", ".", "oci", ".", "image", ".", "manifest", ".", "v1+json">>
DockerListV2 == <<"application/vnd", ".", "docker", ".", "distribution", ".", "manifest", ".", "list", ".", "v2+json">>

RECURSIVE SplitFrom(_, _, _, _)
SplitFrom(str, sep, i, part) ==
    IF i > Len(str) THEN <<part>>
    ELSE IF str[i] = sep THEN <<part>> \o SplitFrom(str, sep, i + 1, <<>>)
    ELSE SplitFrom(str, sep, i + 1, Append(part, str[i]))

\* str.split(sep)
Split(str, sep) == SplitFrom(str, sep, 1, <<>>)

\* the dicts RegistryClient.get_manifest can return
ManifestImage == [digest |-> "sha256:X", size |-> 1, os |-> "linux", arch |-> "amd64", mediaType |-> DockerV2]
ManifestOci == [digest |-> "sha256:Y", size |-> 2, os |-> "linux", arch |-> "arm64", mediaType |-> OciV1]
ManifestList == [digest |-> "sha256:X", size |-> 2, os |-> "multi-platform", mediaType |-> DockerListV2]
ManifestNoDigest == [digest |-> None, size |-> 1, os |-> "linux", arch |-> "amd64", mediaType |-> DockerV2]
ManifestNoMediaType == [digest |-> "sha256:Y", size |-> 0, os |-> "multi-platform"]
ManifestShortType == [digest |-> "sha256:Y", size |-> 0, os |-> "multi-platform", mediaType |-> <<"application/json">>]
Manifests ==
    {ManifestImage, ManifestOci, ManifestList, ManifestNoDigest, ManifestNoMediaType, ManifestShortType}

RegistryError == "RegistryError"
IntegrityError == "IntegrityError"
DatabaseError == "DatabaseError"
\* Repository.DoesNotExist, Repository.MultipleObjectsReturned: what objects.get can raise
DoesNotExist == "DoesNotExist"
MultipleObjectsReturned == "MultipleObjectsReturned"

\* what one get_manifest call yields: the manifest, or the exception it raises
ManifestOutcomes ==
    {[raises |-> FALSE, manifest |-> m] : m \in Manifests}
        \cup {[raises |-> TRUE, manifest |-> [digest |-> None]]}

\* what get_tags_for_repository yields: a list of names, null ("tags": null), or an exception
TagsListOutcomes ==
    {[kind |-> "list", names |-> S] : S \in SUBSET TagNames}
        \cup {[kind |-> "null", names |-> {}], [kind |-> "raises", names |-> {}]}

\* ------------------------------------------------------------------- state
VARIABLES
    registry,       \* what the registry answers, per repository name
    repositories,   \* Repository rows
    tags,           \* Tag rows (committed)
    now,            \* timezone.now()
    stats,          \* stats[s]: the SyncStats of service s
    pc,             \* pc[s]: where service s stands
    batch,          \* batch[s]: the loop of sync_all_tags (rows left, rows attempted)
    frame,          \* frame[s]: the locals of the running sync_repository_tags
    calls,          \* calls[s]: runs of sync_repository_tags service s has started or is bound to start
    synced,         \* repositories whose Tag rows are as their last successful sync left them
    orm_result,     \* the exception a Tag.objects.create made outside the sync has just raised
    repo_result,    \* the exception a Repository.objects.create has just raised
    repo_creates    \* Repository rows created so far

vars == <<registry, repositories, tags, now, stats, pc, batch, frame, calls, synced, orm_result,
          repo_result, repo_creates>>

\* --------------------------------------------------------------- the store
RepositoryRow(id, name, owner, is_official, visibility) ==
    [id |-> id, name |-> name, owner |-> owner, is_official |-> is_official, visibility |-> visibility]

\* Repository.Meta: UniqueConstraint(fields=["owner", "name"])
unique_owner_name(rows) ==
    \A a, b \in rows : (a.owner = b.owner /\ a.name = b.name) => a.id = b.id

\* the Repository table the model starts from
RepositoryTable ==
    {RepositoryRow(1, "app", "alice", FALSE, "PRIVATE"), RepositoryRow(2, "python", "admin", TRUE, "PUBLIC")}

\* the tables the model starts from: no repository yet, one repository, or the two above
RepositoryTables == {{}, {RepositoryRow(1, "app", "alice", FALSE, "PRIVATE")}, RepositoryTable}

\* the (name, owner, is_official) a Repository.objects.create is called with
RepositoryInputs ==
    {<<"app", "alice", FALSE>>, <<"python", "bob", TRUE>>, <<"python", "admin", TRUE>>}

\* the names sync_repository_by_name is called with
LookupNames == {"app", "python", "ghost"}

\* the AutoField primary key of the next row
NextId(rows) ==
    IF rows = {} THEN 1
    ELSE (CHOOSE i \in {r.id : r \in rows} : \A r \in rows : r.id <= i) + 1

\* would inserting (owner, name) break unique_owner_name
RepositoryUniqueViolation(rows, owner, name) ==
    \E r \in rows : r.owner = owner /\ r.name = name

\* Repository.objects.get(name=repo_name): the row, or the exception raised
RepositoryGet(rows, repo_name) ==
    LET found == {r \in rows : r.name = repo_name}
    IN  IF found = {} THEN [exc |-> DoesNotExist, repository |-> 0]
        ELSE IF Cardinality(found) > 1 THEN [exc |-> MultipleObjectsReturned, repository |-> 0]
        ELSE [exc |-> None, repository |-> (CHOOSE r \in found : TRUE).id]

NoRepoResult == [exc |-> None, owner |-> None, name |-> None, is_official |-> FALSE]

Ok(manifest) == [raises |-> FALSE, manifest |-> manifest]

\* the answers of the registry for one repository name: the tag list and, per listed tag, the manifest
RegistryAnswers ==
    UNION {[tags_list : {tl}, manifests : [tl.names -> ManifestOutcomes]] : tl \in TagsListOutcomes}

\* the registries the model starts from: in "app" the tag v1 answers anything and v2, when
\* listed, is an OCI image; "python" is unreachable, empty, or holds the one tag v1
Registries ==
    {reg \in [{"app", "python"} -> RegistryAnswers] :
        /\ "v2" \in reg["app"].tags_list.names => reg["app"].manifests["v2"] = Ok(ManifestOci)
        /\ reg["python"].tags_list.kind # "null"
        /\ reg["python"].tags_list.names \subseteq {"v1"}
        /\ "v1" \in reg["python"].tags_list.names => reg["python"].manifests["v1"] = Ok(ManifestImage)}

RepoName(id) == (CHOOSE r \in repositories : r.id = id).name

\* The columns of Tag the sync reads and writes (Tag.objects.create, tag.save(update_fields=...)).
\* models.py declares name, digest, size, repository and created_at; os, arch, image_type and
\* last_synced are the platform metadata and sync timestamp of the Tag data model.
TagColumns == {"repository", "name", "digest", "size", "os", "arch", "image_type", "last_synced"}

\* a Tag row
TagRow(repository, name, digest, size, os, arch, image_type, last_synced) ==
    [repository |-> repository, name |-> name, digest |-> digest, size |-> size,
     os |-> os, arch |-> arch, image_type |-> image_type, last_synced |-> last_synced]

\* Tag.Meta: UniqueConstraint(fields=["repository", "name"])
unique_repository_name(rows) ==
    \A a, b \in rows : (a.repository = b.repository /\ a.name = b.name) => a = b

\* Tag.objects.filter(repository=repository)
TagsOf(rows, repository) == {t \in rows : t.repository = repository}

\* Tag.objects.filter(repository=repository, name=name)
TagsNamed(rows, repository, name) == {t \in rows : t.repository = repository /\ t.name = name}

\* a constraint on the name alone: a name used in any repository is taken
UniqueViolationByName(rows, repository, name) == \E t \in rows : t.name = name

\* would inserting (repository, name) break unique_repository_name
UniqueViolation(rows, repository, name) == TagsNamed(rows, repository, name) # {}

RECURSIVE SetToSeq(_)
\* the order in which Python iterates a set: some fixed order
SetToSeq(S) ==
    IF S = {} THEN <<>>
    ELSE LET x == CHOOSE y \in S : TRUE IN <<x>> \o SetToSeq(S \ {x})

\* ------------------------------------------------------------- SyncStats
SyncStats ==
    [repos_processed |-> 0, repos_skipped |-> 0, tags_created |-> 0,
     tags_updated |-> 0, tags_deleted |-> 0, errors |-> <<>>]

NoTagsList == [kind |-> "none", names |-> {}]

NoFrame ==
    [repository |-> 0, tags_list |-> NoTagsList, registry_tags |-> <<>>,
     existing_tags |-> {}, ops |-> <<>>, created |-> 0, updated |-> 0, deleted |-> 0,
     exc |-> None, repeat |-> FALSE, repo_name |-> None, log |-> <<>>,
     todo |-> <<>>, held |-> {}, written |-> {}, before |-> {}]

\* the loop of sync_all_tags: rows still to visit, rows visited with their outcome,
\* the stats at the start of the call, whether the call has returned, the rows the queryset
\* yielded, whether check_health
\* was called before the loop, how the sync_tags command that made the call would end
NoBatch ==
    [active |-> FALSE, returned |-> FALSE, todo |-> <<>>, attempted |-> <<>>, start |-> SyncStats,
     rows |-> {}, probe |-> "not_called", exit |-> None]

\* ------------------------------------------------- _fetch_registry_tags
\* a parse that pads a short media type to three parts
MediaTypePartsPadded(manifest) ==
    LET parts == Split(Get(manifest, "mediaType", <<>>), ".")
    IN  IF Len(parts) < 3 THEN <<parts[1], <<>>, <<>>, <<>>>> ELSE parts

\* manifest.get('mediaType', '').split('.')
MediaTypeParts(manifest) == Split(Get(manifest, "mediaType", <<>>), ".")

\* split('.')[-3] raises IndexError on fewer than three parts
ImageTypeRaises(manifest) == Len(MediaTypeParts(manifest)) < 3

\* the entry built from one manifest
TagData(manifest) ==
    LET parts == MediaTypeParts(manifest)
    IN  [digest |-> Get(manifest, "digest", None),
         size |-> Get(manifest, "size", 0),
         os |-> Get(manifest, "os", ""),
         arch |-> Get(manifest, "arch", ""),
         image_type |-> parts[Len(parts) - 2]]

\* does the loop body for this tag end in the except branch (warning, continue)
ManifestSkipped(outcome) ==
    outcome.raises \/ ImageTypeRaises(outcome.manifest)

\* the tag names whose loop body reaches tags[tag_name] = {...}
Described(tags_list, manifests) ==
    {x \in tags_list.names : ~ManifestSkipped(manifests[x])}

\* no try around get_manifest: one failing manifest fails the whole fetch
FetchRaisesOnAnyManifest(tags_list, manifests) ==
    \/ tags_list.kind = "raises"
    \/ \E x \in tags_list.names : manifests[x].raises

\* does _fetch_registry_tags raise: only get_tags_for_repository is outside the try
FetchRaises(tags_list, manifests) == tags_list.kind = "raises"

\* a tag whose manifest could not be fetched stays in the dict, with empty data
FetchRegistryTagsKeepFailed(tags_list, manifests) ==
    IF tags_list.kind # "list" \/ tags_list.names = {} THEN <<>>
    ELSE [tag_name \in {x \in tags_list.names :
                            manifests[x].raises \/ ~ManifestSkipped(manifests[x])} |->
            IF manifests[tag_name].raises
            THEN [digest |-> "", size |-> 0, os |-> "", arch |-> "", image_type |-> <<>>]
            ELSE TagData(manifests[tag_name].manifest)]

\* one call made on the RegistryClient
RegistryCall(method, arg) == [method |-> method, arg |-> arg]

\* a get_manifest that failed is tried a second time
ManifestCallsRetry(tags_list, manifests) ==
    LET q == SetToSeq(tags_list.names)
        failed == SetToSeq({x \in tags_list.names : manifests[x].raises})
    IN  [i \in 1..Len(q) |-> RegistryCall("get_manifest", q[i])]
            \o [i \in 1..Len(failed) |-> RegistryCall("get_manifest", failed[i])]

\* for tag_name in tags_list: self.registry_client.get_manifest(repo_name, tag_name)
ManifestCalls(tags_list, manifests) ==
    LET q == SetToSeq(tags_list.names)
    IN  [i \in 1..Len(q) |-> RegistryCall("get_manifest", q[i])]

\* the calls one _fetch_registry_tags makes on the RegistryClient, in order
RegistryCalls(tags_list, manifests) ==
    <<RegistryCall("get_tags_for_repository", None)>>
        \o (IF tags_list.kind = "list" THEN ManifestCalls(tags_list, manifests) ELSE <<>>)

\* the dict returned: tag name -> tag data, for the tags that were described
FetchRegistryTags(tags_list, manifests) ==
    IF tags_list.kind # "list" \/ tags_list.names = {} THEN <<>>
    ELSE [tag_name \in Described(tags_list, manifests) |-> TagData(manifests[tag_name].manifest)]

\* ------------------------------------------------ _sync_tags_transaction
Op(kind, name) == [kind |-> kind, name |-> name]

NamesOf(rows) == {t.name : t \in rows}

\* the difference taken the wrong way round
new_tag_names_reversed(registry_tag_names, existing_tag_names) == existing_tag_names \ registry_tag_names

new_tag_names(registry_tag_names, existing_tag_names) == registry_tag_names \ existing_tag_names

\* the union taken for the intersection
common_tag_names_union(registry_tag_names, existing_tag_names) == registry_tag_names \cup existing_tag_names

common_tag_names(registry_tag_names, existing_tag_names) == registry_tag_names \cap existing_tag_names

\* nothing is deleted against an empty registry side
deleted_tag_names_unless_empty(registry_tag_names, existing_tag_names) ==
    IF registry_tag_names = {} THEN {} ELSE existing_tag_names \ registry_tag_names

deleted_tag_names(registry_tag_names, existing_tag_names) == existing_tag_names \ registry_tag_names

OpsFor(kind, names) == LET q == SetToSeq(names) IN [i \in 1..Len(q) |-> Op(kind, q[i])]

\* the delete loop placed inside `if registry_tags:` with the other two
TransactionOpsGuarded(registry_tags, existing_tag_names) ==
    LET reg == DOMAIN registry_tags
    IN  IF reg # {}
        THEN OpsFor("create", new_tag_names(reg, existing_tag_names))
                \o OpsFor("save", common_tag_names(reg, existing_tag_names))
                \o OpsFor("delete", deleted_tag_names(reg, existing_tag_names))
        ELSE <<>>

\* the row operations of one run, in the order of the three loops
TransactionOps(registry_tags, existing_tag_names) ==
    LET reg == DOMAIN registry_tags
    IN  (IF reg # {}
         THEN OpsFor("create", new_tag_names(reg, existing_tag_names))
                \o OpsFor("save", common_tag_names(reg, existing_tag_names))
         ELSE <<>>)
        \o OpsFor("delete", deleted_tag_names(reg, existing_tag_names))

\* the transaction in progress: its view of the table, the counters, the exception raised
Begin(store) ==
    [store |-> store, exc |-> None, created |-> 0, updated |-> 0, deleted |-> 0, ops |-> <<>>]

Raise(st, e) == [st EXCEPT !.exc = e]

\* Tag.objects.create(...): digest is NOT NULL, (repository, name) is unique
ApplyCreate(st, repository, name, tag_data, clock) ==
    IF Get(tag_data, "digest", "") = None THEN Raise(st, IntegrityError)
    ELSE IF UniqueViolation(st.store, repository, name) THEN Raise(st, IntegrityError)
    ELSE [st EXCEPT
            !.store = @ \cup {TagRow(repository, name, Get(tag_data, "digest", ""),
                                     Get(tag_data, "size", 0), Get(tag_data, "os", ""),
                                     Get(tag_data, "arch", ""), Get(tag_data, "image_type", <<>>),
                                     clock)},
            !.created = @ + 1,
            !.ops = Append(@, Op("create", name))]

\* no comparison: every common tag is rewritten
DigestAlwaysChanged(tag, new_digest) == TRUE

\* tag.digest != new_digest
DigestChanged(tag, new_digest) == tag.digest # new_digest

\* the unchanged branch rewrites size and platform from the manifest as well
HeartbeatWithMetadata(t, tag_data, clock) ==
    [t EXCEPT !.size = Get(tag_data, "size", 0),
              !.os = Get(tag_data, "os", ""),
              !.arch = Get(tag_data, "arch", ""),
              !.image_type = Get(tag_data, "image_type", <<>>),
              !.last_synced = clock]

\* else: tag.last_synced = timezone.now(); tag.save(update_fields=['last_synced'])
Heartbeat(t, tag_data, clock) == [t EXCEPT !.last_synced = clock]

\* a changed digest handled by deleting the row and creating a new one
ApplySaveRecreate(st, repository, tag, tag_data, clock) ==
    LET new_digest == Get(tag_data, "digest", "")
        row == TagsNamed(st.store, repository, tag.name)
    IN  IF DigestChanged(tag, new_digest)
        THEN IF new_digest = None THEN Raise(st, IntegrityError)
             ELSE [st EXCEPT
                     !.store = (@ \ row) \cup
                        {TagRow(repository, tag.name, new_digest, Get(tag_data, "size", 0),
                                Get(tag_data, "os", ""), Get(tag_data, "arch", ""),
                                Get(tag_data, "image_type", <<>>), clock)},
                     !.deleted = @ + 1,
                     !.created = @ + 1,
                     !.ops = @ \o <<Op("delete", tag.name), Op("create", tag.name)>>]
        ELSE IF row = {} THEN Raise(st, DatabaseError)
             ELSE [st EXCEPT
                     !.store = (@ \ row) \cup {Heartbeat(t, tag_data, clock) : t \in row},
                     !.ops = Append(@, Op("heartbeat", tag.name))]

\* the body of the loop over common_tag_names: tag.save(update_fields=[...])
ApplySave(st, repository, tag, tag_data, clock) ==
    LET new_digest == Get(tag_data, "digest", "")
        row == TagsNamed(st.store, repository, tag.name)
    IN  IF DigestChanged(tag, new_digest)
        THEN IF new_digest = None THEN Raise(st, IntegrityError)
             ELSE IF row = {} THEN Raise(st, DatabaseError)
             ELSE [st EXCEPT
                     !.store = (@ \ row) \cup
                        {[t EXCEPT !.digest = new_digest,
                                   !.size = Get(tag_data, "size", 0),
                                   !.os = Get(tag_data, "os", ""),
                                   !.arch = Get(tag_data, "arch", ""),
                                   !.image_type = Get(tag_data, "image_type", <<>>),
                                   !.last_synced = clock] : t \in row},
                     !.updated = @ + 1,
                     !.ops = Append(@, Op("update", tag.name))]
        ELSE IF row = {} THEN Raise(st, DatabaseError)
             ELSE [st EXCEPT
                     !.store = (@ \ row) \cup {Heartbeat(t, tag_data, clock) : t \in row},
                     !.ops = Append(@, Op("heartbeat", tag.name))]

\* a delete that filters on the name alone
ApplyDeleteByName(st, repository, name) ==
    [st EXCEPT !.store = {t \in @ : t.name # name},
               !.deleted = @ + 1,
               !.ops = Append(@, Op("delete", name))]

\* Tag.objects.filter(repository=repository, name=tag_name).delete()
ApplyDelete(st, repository, name) ==
    [st EXCEPT !.store = @ \ TagsNamed(@, repository, name),
               !.deleted = @ + 1,
               !.ops = Append(@, Op("delete", name))]

ApplyOp(st, op, repository, registry_tags, existing_tags, clock) ==
    IF op.kind = "create"
    THEN ApplyCreate(st, repository, op.name, registry_tags[op.name], clock)
    ELSE IF op.kind = "save"
    THEN ApplySave(st, repository, CHOOSE t \in existing_tags : t.name = op.name,
                   registry_tags[op.name], clock)
    ELSE ApplyDelete(st, repository, op.name)

RECURSIVE RunOps(_, _, _, _, _, _, _, _)
\* runs the operations from the i-th on; the database fails at operation fail_at (0: never)
RunOps(st, ops, i, fail_at, repository, registry_tags, existing_tags, clock) ==
    IF st.exc # None \/ i > Len(ops) THEN st
    ELSE IF fail_at = i THEN Raise(st, DatabaseError)
    ELSE RunOps(ApplyOp(st, ops[i], repository, registry_tags, existing_tags, clock),
                ops, i + 1, fail_at, repository, registry_tags, existing_tags, clock)

\* _sync_tags_transaction(repository, registry_tags) run against the table `store`
SyncTagsTransaction(store, repository, registry_tags, fail_at, clock) ==
    LET existing_tags == TagsOf(store, repository)
        ops == TransactionOps(registry_tags, NamesOf(existing_tags))
    IN  RunOps(Begin(store), ops, 1, fail_at, repository, registry_tags, existing_tags, clock)

\* a block that is not atomic: what was written before the exception stays
AtomicNoRollback(before, st) == st.store

\* with transaction.atomic(): the table after the block was left
Atomic(before, st) == IF st.exc # None THEN before ELSE st.store

\* ------------------------------------------------- stats and the batch
\* the counters are set to the last triple instead of growing by it
RecordSuccessOverwrite(st, created, updated, deleted) ==
    [st EXCEPT !.repos_processed = @ + 1,
               !.tags_created = created,
               !.tags_updated = updated,
               !.tags_deleted = deleted]

\* self.stats.repos_processed += 1; tags_created += created; ...
RecordSuccess(st, created, updated, deleted) ==
    [st EXCEPT !.repos_processed = @ + 1,
               !.tags_created = @ + created,
               !.tags_updated = @ + updated,
               !.tags_deleted = @ + deleted]

\* f"Failed to sync repository {repo.name}: {str(e)}"
ErrorMsg(repo_name, e) == [repository |-> repo_name, exc |-> e]

\* the failure is logged but the repository is not counted as skipped
RecordFailureNotCounted(st, error_msg) == [st EXCEPT !.errors = Append(@, error_msg)]

\* self.stats.errors.append(error_msg); self.stats.repos_skipped += 1
RecordFailure(st, error_msg) ==
    [st EXCEPT !.errors = Append(@, error_msg), !.repos_skipped = @ + 1]

\* one iteration of the loop of sync_all_tags: the row, "ok" or the exception caught, and the
\* triple sync_repository_tags returned
Attempt(repository, outcome, created, updated, deleted) ==
    [repository |-> repository, outcome |-> outcome,
     created |-> created, updated |-> updated, deleted |-> deleted]

\* sync_all_tags and _sync_all_repositories make no call to check_health
HealthProbe == "not_called"

CommandError == "CommandError"

\* the command fails as soon as one repository failed
CommandExitOnAnyError(st) ==
    IF st.errors # <<>> THEN CommandError ELSE "success"

\* _sync_all_repositories: if stats.errors and stats.repos_processed == 0: raise CommandError
CommandExit(st) ==
    IF st.errors # <<>> /\ st.repos_processed = 0 THEN CommandError ELSE "success"

\* a try/except around the whole loop: the first exception ends it
RemainingAfterExceptionAbort(todo) == <<>>

\* the try/except sits inside the for loop: the rows not yet visited stay to be visited
RemainingAfterException(todo) == todo

\* ------------------------------------------------------------------ Init
Init ==
    /\ registry \in Registries
    /\ repositories \in RepositoryTables
    /\ tags = {}
    /\ now = 0
    /\ stats = [s \in Services |-> SyncStats]
    /\ pc = [s \in Services |-> "idle"]
    /\ batch = [s \in Services |-> NoBatch]
    /\ frame = [s \in Services |-> NoFrame]
    /\ calls = [s \in Services |-> 0]
    /\ synced = {}
    /\ orm_result = [exc |-> None, repository |-> 0, name |-> None]
    /\ repo_result = NoRepoResult
    /\ repo_creates = 0

\* --------------------------------------------------------------- actions
\* no exception of an objects.create is on its way to the caller
Quiet == repo_result.exc = None /\ orm_result.exc = None

\* what service s has used of the budget MaxSyncs: its runs of sync_repository_tags and the
\* Repository rows created before them
Spent(s) == calls[s] + repo_creates

AllIdle == Quiet /\ \A s \in Services : pc[s] = "idle"

\* time passes between two calls on the service
Tick ==
    /\ now < MaxClock
    /\ AllIdle
    /\ now' = now + 1
    /\ UNCHANGED <<registry, repositories, tags, stats, pc, batch, frame, calls, synced, orm_result, repo_result, repo_creates>>

\* rows no sync has touched yet
UserTags == {t \in tags : t.last_synced = Never}

\* Tag.objects.create(repository=, name=, digest=, size=) outside the sync, between two calls
CreateTag(repository, name, digest, size) ==
    /\ AllIdle
    /\ IF UniqueViolation(tags, repository, name)
       THEN /\ orm_result' = [exc |-> IntegrityError, repository |-> repository, name |-> name]
            /\ UNCHANGED <<tags, synced>>
       ELSE /\ Cardinality(UserTags) < MaxUserTags
            /\ orm_result' = [exc |-> None, repository |-> 0, name |-> None]
            /\ tags' = tags \cup {TagRow(repository, name, digest, size, "", "", <<>>, Never)}
            /\ synced' = synced \ {repository}
    /\ UNCHANGED <<registry, repositories, now, stats, pc, batch, frame, calls, repo_result, repo_creates>>

RepoIdsOf(rows) == {r.id : r \in rows}

\* the orders in which Repository.objects.all() can yield the rows (Meta sets no ordering)
RepositoryOrders ==
    LET ids == {r.id : r \in repositories}
    IN  {q \in [1..Cardinality(ids) -> ids] : \A i, j \in DOMAIN q : i # j => q[i] # q[j]}

\* sync_all_tags: the queryset is evaluated, the loop starts
SyncAllTagsFresh(s) ==
    /\ pc[s] = "idle"
    /\ Quiet
    /\ Spent(s) + Cardinality(repositories) <= MaxSyncs
    /\ \E order \in RepositoryOrders :
          batch' = [batch EXCEPT ![s] = [NoBatch EXCEPT !.active = TRUE, !.todo = order,
                                                       !.start = SyncStats,
                                                       !.rows = RepoIdsOf(repositories),
                                                       !.probe = HealthProbe]]
    /\ stats' = [stats EXCEPT ![s] = SyncStats]
    /\ pc' = [pc EXCEPT ![s] = "loop"]
    /\ calls' = [calls EXCEPT ![s] = @ + Cardinality(repositories)]
    /\ frame' = [frame EXCEPT ![s] = NoFrame]
    /\ UNCHANGED <<registry, repositories, tags, now, synced, orm_result, repo_result, repo_creates>>

SyncAllTags(s) ==
    /\ pc[s] = "idle"
    /\ Quiet
    /\ Spent(s) + Cardinality(repositories) <= MaxSyncs
    /\ \E order \in RepositoryOrders :
          batch' = [batch EXCEPT ![s] = [NoBatch EXCEPT !.active = TRUE, !.todo = order,
                                                       !.start = stats[s],
                                                       !.rows = RepoIdsOf(repositories),
                                                       !.probe = HealthProbe]]
    /\ pc' = [pc EXCEPT ![s] = "loop"]
    /\ calls' = [calls EXCEPT ![s] = @ + Cardinality(repositories)]
    /\ frame' = [frame EXCEPT ![s] = NoFrame]
    /\ UNCHANGED <<registry, repositories, tags, now, stats, synced, orm_result, repo_result, repo_creates>>

\* for repo in repositories: self.sync_repository_tags(repo)
LoopNext(s) ==
    /\ pc[s] = "loop"
    /\ batch[s].todo # <<>>
    /\ frame' = [frame EXCEPT ![s] = [NoFrame EXCEPT !.repository = Head(batch[s].todo)]]
    /\ batch' = [batch EXCEPT ![s].todo = Tail(@)]
    /\ pc' = [pc EXCEPT ![s] = "fetch"]
    /\ UNCHANGED <<registry, repositories, tags, now, stats, calls, synced, orm_result, repo_result, repo_creates>>

\* the loop of sync_all_tags is over: return self.stats
SyncAllReturn(s) ==
    /\ pc[s] = "loop"
    /\ batch[s].todo = <<>>
    /\ batch' = [batch EXCEPT ![s].active = FALSE, ![s].returned = TRUE,
                              ![s].exit = CommandExit(stats[s])]
    /\ pc' = [pc EXCEPT ![s] = "idle"]
    /\ UNCHANGED <<registry, repositories, tags, now, stats, frame, calls, synced, orm_result, repo_result, repo_creates>>

\* sync_repository_tags(repository) called directly
SyncRepositoryTags(s, repository) ==
    /\ pc[s] = "idle"
    /\ Quiet
    /\ Spent(s) < MaxSyncs
    /\ frame' = [frame EXCEPT ![s] = [NoFrame EXCEPT !.repository = repository]]
    /\ batch' = [batch EXCEPT ![s] = NoBatch]
    /\ pc' = [pc EXCEPT ![s] = "fetch"]
    /\ calls' = [calls EXCEPT ![s] = @ + 1]
    /\ UNCHANGED <<registry, repositories, tags, now, stats, synced, orm_result, repo_result, repo_creates>>

\* a lookup by get_or_create: a name the registry knows gets a row when it has none
SyncRepositoryByNameOrCreate(s, repo_name) ==
    /\ pc[s] = "idle"
    /\ Quiet
    /\ LET got == RepositoryGet(repositories, repo_name)
           made == got.exc = DoesNotExist /\ repo_name \in DOMAIN registry
       IN  IF got.exc = None \/ made
           THEN /\ Spent(s) < MaxSyncs
                /\ repositories' =
                      IF made
                      THEN repositories \cup
                              {RepositoryRow(NextId(repositories), repo_name, "admin", FALSE, "PUBLIC")}
                      ELSE repositories
                /\ frame' = [frame EXCEPT ![s] =
                                [NoFrame EXCEPT !.repository =
                                    IF made THEN NextId(repositories) ELSE got.repository]]
                /\ pc' = [pc EXCEPT ![s] = "fetch"]
                /\ calls' = [calls EXCEPT ![s] = @ + 1]
           ELSE /\ frame' = [frame EXCEPT ![s] = [NoFrame EXCEPT !.exc = got.exc,
                                                                 !.repo_name = repo_name]]
                /\ pc' = [pc EXCEPT ![s] = "raised"]
                /\ calls' = calls
                /\ repositories' = repositories
    /\ batch' = [batch EXCEPT ![s] = NoBatch]
    /\ UNCHANGED <<registry, tags, now, stats, synced, orm_result, repo_result, repo_creates>>

\* sync_repository_by_name(repo_name): Repository.objects.get, then sync_repository_tags
SyncRepositoryByName(s, repo_name) ==
    /\ pc[s] = "idle"
    /\ Quiet
    /\ LET got == RepositoryGet(repositories, repo_name)
       IN  IF got.exc = None
           THEN /\ Spent(s) < MaxSyncs
                /\ frame' = [frame EXCEPT ![s] = [NoFrame EXCEPT !.repository = got.repository]]
                /\ pc' = [pc EXCEPT ![s] = "fetch"]
                /\ calls' = [calls EXCEPT ![s] = @ + 1]
           ELSE /\ frame' = [frame EXCEPT ![s] = [NoFrame EXCEPT !.exc = got.exc,
                                                                 !.repo_name = repo_name]]
                /\ pc' = [pc EXCEPT ![s] = "raised"]
                /\ calls' = calls
    /\ batch' = [batch EXCEPT ![s] = NoBatch]
    /\ UNCHANGED <<registry, repositories, tags, now, stats, synced, orm_result, repo_result, repo_creates>>

\* Repository.objects.create(name=, owner=, is_official=), before the service is first used
CreateRepository(name, owner, is_official) ==
    /\ AllIdle
    /\ \A s \in Services : calls[s] = 0
    /\ IF RepositoryUniqueViolation(repositories, owner, name)
       THEN /\ repo_result' = [exc |-> IntegrityError, owner |-> owner, name |-> name,
                               is_official |-> is_official]
            /\ UNCHANGED <<repositories, repo_creates>>
       ELSE /\ repo_creates < MaxRepoCreates
            /\ repositories' = repositories \cup
                  {RepositoryRow(NextId(repositories), name, owner, is_official, "PUBLIC")}
            /\ repo_creates' = repo_creates + 1
            /\ repo_result' = NoRepoResult
    /\ UNCHANGED <<registry, tags, now, stats, pc, batch, frame, calls, synced, orm_result>>

\* the caller of objects.create has dealt with the IntegrityError
HandleIntegrityError ==
    /\ ~Quiet
    /\ repo_result' = NoRepoResult
    /\ orm_result' = [exc |-> None, repository |-> 0, name |-> None]
    /\ UNCHANGED <<registry, repositories, tags, now, stats, pc, batch, frame, calls, synced,
                   repo_creates>>

\* the local rows of the repository are cleared before the registry is asked
FetchAfterClearing(s) ==
    /\ pc[s] = "fetch"
    /\ LET tags_list == registry[RepoName(frame[s].repository)].tags_list
           manifests == registry[RepoName(frame[s].repository)].manifests
       IN  IF FetchRaises(tags_list, manifests)
           THEN /\ frame' = [frame EXCEPT ![s].tags_list = tags_list, ![s].exc = RegistryError,
                                          ![s].log = <<RegistryCall("get_tags_for_repository", None)>>]
                /\ pc' = [pc EXCEPT ![s] = "raised"]
           ELSE /\ frame' = [frame EXCEPT ![s].tags_list = tags_list,
                                          ![s].registry_tags = FetchRegistryTags(tags_list, manifests),
                                          ![s].log = RegistryCalls(tags_list, manifests)]
                /\ pc' = [pc EXCEPT ![s] = "transaction"]
    /\ tags' = tags \ TagsOf(tags, frame[s].repository)
    /\ UNCHANGED <<registry, repositories, now, stats, batch, calls, synced, orm_result, repo_result, repo_creates>>

\* registry_tags = self._fetch_registry_tags(repository.name)
Fetch(s) ==
    /\ pc[s] = "fetch"
    /\ LET tags_list == registry[RepoName(frame[s].repository)].tags_list
           manifests == registry[RepoName(frame[s].repository)].manifests
       IN  IF FetchRaises(tags_list, manifests)
           THEN /\ frame' = [frame EXCEPT ![s].tags_list = tags_list, ![s].exc = RegistryError,
                                          ![s].log = <<RegistryCall("get_tags_for_repository", None)>>]
                /\ pc' = [pc EXCEPT ![s] = "raised"]
           ELSE /\ frame' = [frame EXCEPT ![s].tags_list = tags_list,
                                          ![s].registry_tags = FetchRegistryTags(tags_list, manifests),
                                          ![s].log = RegistryCalls(tags_list, manifests)]
                /\ pc' = [pc EXCEPT ![s] = "transaction"]
    /\ UNCHANGED <<registry, repositories, tags, now, stats, batch, calls, synced, orm_result, repo_result, repo_creates>>

\* with transaction.atomic(): created, updated, deleted = self._sync_tags_transaction(...)
Transaction(s) ==
    /\ pc[s] = "transaction"
    /\ LET repository == frame[s].repository
           existing_tags == TagsOf(tags, repository)
           n == Len(TransactionOps(frame[s].registry_tags, NamesOf(existing_tags)))
       IN  \E fail_at \in 0..(n + 1) :
             LET st == SyncTagsTransaction(tags, repository, frame[s].registry_tags, fail_at, now)
                 end == IF st.exc = None /\ fail_at = n + 1 THEN Raise(st, DatabaseError) ELSE st
             IN  /\ tags' = Atomic(tags, end)
                 /\ frame' = [frame EXCEPT ![s].existing_tags = existing_tags,
                                           ![s].log = Append(@, RegistryCall("atomic", None)),
                                           ![s].ops = end.ops,
                                           ![s].created = end.created,
                                           ![s].updated = end.updated,
                                           ![s].deleted = end.deleted,
                                           ![s].exc = end.exc,
                                           ![s].repeat = repository \in synced]
                 /\ pc' = [pc EXCEPT ![s] = IF end.exc = None THEN "stats" ELSE "raised"]
                 /\ synced' = IF end.exc = None THEN synced \cup {repository} ELSE synced
    /\ UNCHANGED <<registry, repositories, now, stats, batch, calls, orm_result, repo_result, repo_creates>>

\* self.stats.repos_processed += 1 ... return created, updated, deleted
UpdateStats(s) ==
    /\ pc[s] = "stats"
    /\ stats' = [stats EXCEPT ![s] = RecordSuccess(@, frame[s].created, frame[s].updated, frame[s].deleted)]
    /\ IF batch[s].active
       THEN /\ batch' = [batch EXCEPT ![s].attempted =
                            Append(@, Attempt(frame[s].repository, "ok", frame[s].created,
                                              frame[s].updated, frame[s].deleted))]
            /\ pc' = [pc EXCEPT ![s] = "loop"]
       ELSE /\ batch' = batch
            /\ pc' = [pc EXCEPT ![s] = "idle"]
    /\ frame' = [frame EXCEPT ![s] = NoFrame]
    /\ UNCHANGED <<registry, repositories, tags, now, calls, synced, orm_result, repo_result, repo_creates>>

\* the except branch counts the repository as processed as well as skipped
CatchExceptionCounted(s) ==
    /\ pc[s] = "raised"
    /\ batch[s].active
    /\ stats' = [stats EXCEPT ![s] =
                    [RecordFailure(@, ErrorMsg(RepoName(frame[s].repository), frame[s].exc))
                        EXCEPT !.repos_processed = @ + 1]]
    /\ batch' = [batch EXCEPT ![s].attempted =
                    Append(@, Attempt(frame[s].repository, frame[s].exc, 0, 0, 0)),
                              ![s].todo = RemainingAfterException(@)]
    /\ frame' = [frame EXCEPT ![s] = NoFrame]
    /\ pc' = [pc EXCEPT ![s] = "loop"]
    /\ UNCHANGED <<registry, repositories, tags, now, calls, synced, orm_result, repo_result, repo_creates>>

\* sync_all_tags: except Exception as e
CatchException(s) ==
    /\ pc[s] = "raised"
    /\ batch[s].active
    /\ stats' = [stats EXCEPT ![s] =
                    RecordFailure(@, ErrorMsg(RepoName(frame[s].repository), frame[s].exc))]
    /\ batch' = [batch EXCEPT ![s].attempted =
                    Append(@, Attempt(frame[s].repository, frame[s].exc, 0, 0, 0)),
                              ![s].todo = RemainingAfterException(@)]
    /\ frame' = [frame EXCEPT ![s] = NoFrame]
    /\ pc' = [pc EXCEPT ![s] = "loop"]
    /\ UNCHANGED <<registry, repositories, tags, now, calls, synced, orm_result, repo_result, repo_creates>>

\* the service catches the exception itself and books it as a skipped repository
RaiseSwallowed(s) ==
    /\ pc[s] = "raised"
    /\ ~batch[s].active
    /\ stats' = [stats EXCEPT ![s] = RecordFailure(@, ErrorMsg(frame[s].repo_name, frame[s].exc))]
    /\ frame' = [frame EXCEPT ![s] = NoFrame]
    /\ pc' = [pc EXCEPT ![s] = "idle"]
    /\ UNCHANGED <<registry, repositories, tags, now, batch, calls, synced, orm_result, repo_result, repo_creates>>

\* the exception leaves sync_repository_tags or sync_repository_by_name towards the caller
RaiseToCaller(s) ==
    /\ pc[s] = "raised"
    /\ ~batch[s].active
    /\ frame' = [frame EXCEPT ![s] = NoFrame]
    /\ pc' = [pc EXCEPT ![s] = "idle"]
    /\ UNCHANGED <<registry, repositories, tags, now, stats, batch, calls, synced, orm_result, repo_result, repo_creates>>

RepoIds == {x.id : x \in repositories}

Next ==
    \/ Tick
    \/ \E r \in RepoIds, name \in TagNames : CreateTag(r, name, "sha256:X", 1)
    \/ \E s \in Services : SyncAllTags(s)
    \/ \E s \in Services : LoopNext(s)
    \/ \E s \in Services : SyncAllReturn(s)
    \/ \E s \in Services, r \in RepoIds : SyncRepositoryTags(s, r)
    \/ \E s \in Services, name \in LookupNames : SyncRepositoryByName(s, name)
    \/ \E in \in RepositoryInputs : CreateRepository(in[1], in[2], in[3])
    \/ HandleIntegrityError
    \/ \E s \in Services : Fetch(s)
    \/ \E s \in Services : Transaction(s)
    \/ \E s \in Services : UpdateStats(s)
    \/ \E s \in Services : CatchException(s)
    \/ \E s \in Services : RaiseToCaller(s)

Spec == Init /\ [][Next]_vars

TypeOK ==
    /\ now \in 0..MaxClock
    /\ \A s \in Services : pc[s] \in {"idle", "loop", "fetch", "transaction", "stats", "raised"}
    /\ \A s \in Services : calls[s] \in 0..MaxSyncs
    /\ synced \subseteq RepoIds

\* ---------------------------------------------------------------- claims
\* what the registry answered to the run service s is in
AnswerOf(s) == registry[RepoName(frame[s].repository)]

\* get_manifest raised for no listed tag of the run
AllManifestsFetched(s) ==
    \A x \in frame[s].tags_list.names : ~AnswerOf(s).manifests[x].raises

\* every listed tag made it into registry_tags
AllDescribed(s) == DOMAIN frame[s].registry_tags = frame[s].tags_list.names

\* the Tag rows of the repository service s is syncing
RowsOf(s) == TagsOf(tags, frame[s].repository)

\* C1: after a sync_repository_tags(R) that returns normally with every listed tag's manifest
\* fetched, the local tag names of R are the listed names and each local digest is the digest
\* fetched for that name in this run.
C1_LocalEqualsListed ==
    \A s \in Services :
        (pc[s] = "stats" /\ AllManifestsFetched(s)) =>
            /\ NamesOf(RowsOf(s)) = frame[s].tags_list.names
            /\ \A t \in RowsOf(s) :
                  t.name \in frame[s].tags_list.names
                     => t.digest = Get(AnswerOf(s).manifests[t.name].manifest, "digest", None)

\* the same statement for the runs in which every listed tag was described
C1_LocalEqualsDescribed ==
    \A s \in Services :
        (pc[s] = "stats" /\ AllDescribed(s)) =>
            /\ NamesOf(RowsOf(s)) = frame[s].tags_list.names
            /\ \A t \in RowsOf(s) : t.digest = frame[s].registry_tags[t.name].digest

\* the four counters a successful run adds to
Counters(st) == <<st.repos_processed, st.tags_created, st.tags_updated, st.tags_deleted>>

\* the exceptions that come out of the transaction block
TransactionErrors == {IntegrityError, DatabaseError}

\* C2: if a create, update or delete inside the repository's transaction raises, then after
\* sync_repository_tags exits every Tag row of that repository is as it was before the call
\* and repos_processed, tags_created, tags_updated, tags_deleted are unchanged.
C2_RaiseLeavesNoTrace ==
    [][\A s \in Services :
          /\ (pc[s] = "transaction" /\ pc'[s] = "raised") =>
                /\ TagsOf(tags', frame[s].repository) = TagsOf(tags, frame[s].repository)
                /\ Counters(stats'[s]) = Counters(stats[s])
          /\ (pc[s] = "raised" /\ frame[s].exc \in TransactionErrors /\ pc'[s] # "raised") =>
                /\ TagsOf(tags', frame[s].repository) = frame[s].existing_tags
                /\ Counters(stats'[s]) = Counters(stats[s])]_vars

\* a run raised after at least one row operation had been carried out
C2_Witness ==
    \E s \in Services :
        /\ pc[s] = "raised"
        /\ frame[s].exc \in TransactionErrors
        /\ frame[s].ops # <<>>

\* C3: in sync_all_tags, when get_tags_for_repository fails for a repository, its Tag rows are
\* unchanged, repos_skipped grows by 1 and exactly one message is appended to errors, while the
\* loop goes on with the other repositories; with two repositories of which the second fails,
\* a fresh service returns repos_processed = 1, repos_skipped = 1, len(errors) = 1.
C3_FetchFailureIsolated ==
    /\ [][\A s \in Services :
            /\ (pc[s] = "fetch" /\ pc'[s] = "raised") => tags' = tags
            /\ (pc[s] = "raised" /\ batch[s].active /\ frame[s].exc = RegistryError /\ pc'[s] # "raised") =>
                  /\ tags' = tags
                  /\ stats'[s].repos_skipped = stats[s].repos_skipped + 1
                  /\ Len(stats'[s].errors) = Len(stats[s].errors) + 1
                  /\ SubSeq(stats'[s].errors, 1, Len(stats[s].errors)) = stats[s].errors
                  /\ Counters(stats'[s]) = Counters(stats[s])
                  /\ pc'[s] = "loop"
                  /\ batch'[s].todo = batch[s].todo]_vars
    /\ [](\A s \in Services :
            (/\ batch[s].returned
             /\ batch[s].start = SyncStats
             /\ Len(batch[s].attempted) = 2
             /\ batch[s].attempted[1].outcome = "ok"
             /\ batch[s].attempted[2].outcome = RegistryError) =>
                /\ stats[s].repos_processed = 1
                /\ stats[s].repos_skipped = 1
                /\ Len(stats[s].errors) = 1)

\* a batch over two repositories returned, the second one's tag list had failed and that
\* repository holds a Tag row
C3_Witness ==
    \E s \in Services :
        /\ batch[s].returned
        /\ Len(batch[s].attempted) = 2
        /\ batch[s].attempted[1].outcome = "ok"
        /\ batch[s].attempted[2].outcome = RegistryError
        /\ TagsOf(tags, batch[s].attempted[2].repository) # {}

\* the repositories of a sequence of attempts
AttemptedRepos(attempted) == [i \in 1..Len(attempted) |-> attempted[i].repository]

\* every row of the table occurs exactly once in q
VisitsEachOnce(q, ids) ==
    /\ Len(q) = Cardinality(ids)
    /\ {q[i] : i \in 1..Len(q)} = ids

\* the rows attempted, the row in progress and the rows to come are the table, each row once
C4_EachOnce(s) ==
    /\ batch[s].returned => VisitsEachOnce(AttemptedRepos(batch[s].attempted), batch[s].rows)
    /\ batch[s].active =>
          /\ batch[s].rows = RepoIds
          /\ VisitsEachOnce(AttemptedRepos(batch[s].attempted)
                                \o (IF pc[s] = "loop" THEN <<>> ELSE <<frame[s].repository>>)
                                \o batch[s].todo, RepoIds)

\* the steps by which a batch goes on after a repository is done: to the next one, to its
\* return, or from a raised exception back into the loop
BatchStep(s) ==
    \/ LoopNext(s)
    \/ SyncAllReturn(s)
    \/ CatchException(s)

\* C4: sync_all_tags attempts sync_repository_tags exactly once for every Repository row,
\* whatever its visibility, owner or is_official and whatever the outcome of the repositories
\* before it, and then returns: no repository's failure stops the batch.
C4_EveryRepositoryAttempted ==
    \A s \in Services :
        /\ C4_EachOnce(s)
        /\ batch[s].active /\ pc[s] \in {"loop", "raised"} => ENABLED BatchStep(s)

\* a batch returned in which the first repository had failed and the second was processed
C4_Witness ==
    \E s \in Services :
        /\ batch[s].returned
        /\ Len(batch[s].attempted) = 2
        /\ batch[s].attempted[1].outcome # "ok"
        /\ batch[s].attempted[2].outcome = "ok"
        /\ \E a, b \in repositories : a.is_official /\ ~b.is_official /\ a.visibility # b.visibility

\* a row without its last_synced column
ButLastSynced(t) == [c \in TagColumns \ {"last_synced"} |-> t[c]]

\* C5: two successful syncs of the same repository in succession, the registry answering the
\* same both times: the second run returns created = 0, updated = 0, deleted = 0 and changes
\* no column of any Tag row other than last_synced.
C5_SecondSyncIsNoOp ==
    \A s \in Services :
        (pc[s] = "stats" /\ frame[s].repeat) =>
            /\ frame[s].created = 0
            /\ frame[s].updated = 0
            /\ frame[s].deleted = 0
            /\ Cardinality(RowsOf(s)) = Cardinality(frame[s].existing_tags)
            /\ {ButLastSynced(t) : t \in RowsOf(s)} = {ButLastSynced(t) : t \in frame[s].existing_tags}

\* a second sync in a row ended, over rows the first one left, and last_synced moved
C5_Witness ==
    \E s \in Services :
        /\ pc[s] = "stats"
        /\ frame[s].repeat
        /\ frame[s].existing_tags # {}
        /\ RowsOf(s) # frame[s].existing_tags

\* the local rows whose name the registry reports with another digest
Repointed(s) ==
    {t \in frame[s].existing_tags :
        /\ t.name \in DOMAIN frame[s].registry_tags
        /\ frame[s].registry_tags[t.name].digest # t.digest}

\* the kinds of row operation the run carried out on one tag name, in order
OpsOn(s, name) ==
    LET q == frame[s].ops
        RECURSIVE Pick(_)
        Pick(i) == IF i > Len(q) THEN <<>>
                   ELSE (IF q[i].name = name THEN <<q[i].kind>> ELSE <<>>) \o Pick(i + 1)
    IN  Pick(1)

\* C6: a tag name stored locally with digest X and reported with a digest Y other than X is
\* overwritten in place, not deleted and recreated: afterwards its digest is Y and the name
\* counts as updated = 1, created = 0, deleted = 0.
C6_RepointedUpdatedInPlace ==
    \A s \in Services :
        pc[s] = "stats" =>
            /\ \A t \in Repointed(s) :
                  /\ OpsOn(s, t.name) = <<"update">>
                  /\ \E u \in RowsOf(s) :
                        /\ u.name = t.name
                        /\ u.digest = frame[s].registry_tags[t.name].digest
                        /\ u.digest # t.digest
            /\ frame[s].updated = Cardinality(Repointed(s))
            /\ frame[s].created = Cardinality(DOMAIN frame[s].registry_tags \ NamesOf(frame[s].existing_tags))

\* a run ended whose only change was the digest of one existing row
C6_Witness ==
    \E s \in Services :
        /\ pc[s] = "stats"
        /\ Cardinality(Repointed(s)) = 1
        /\ frame[s].updated = 1
        /\ frame[s].created = 0
        /\ frame[s].deleted = 0

\* the local names that are not in the registry-side comparison set
Orphans(s) == NamesOf(frame[s].existing_tags) \ DOMAIN frame[s].registry_tags

\* C7: a successful sync deletes every local tag of the repository whose name is not in the
\* registry-side comparison set, and only those; the returned deleted count is their number
\* and the tags still listed remain.
C7_OrphansDeleted ==
    \A s \in Services :
        pc[s] = "stats" =>
            /\ NamesOf(RowsOf(s)) \cap Orphans(s) = {}
            /\ NamesOf(frame[s].existing_tags) \ Orphans(s) \subseteq NamesOf(RowsOf(s))
            /\ \A x \in NamesOf(frame[s].existing_tags) :
                  ("delete" \in {OpsOn(s, x)[i] : i \in DOMAIN OpsOn(s, x)}) <=> x \in Orphans(s)
            /\ frame[s].deleted = Cardinality(Orphans(s))

\* of two local tags one was no longer listed: it is gone, the other one remains
C7_Witness ==
    \E s \in Services :
        /\ pc[s] = "stats"
        /\ Cardinality(frame[s].existing_tags) = 2
        /\ frame[s].deleted = 1
        /\ Cardinality(RowsOf(s)) = 1
        /\ NamesOf(RowsOf(s)) \subseteq NamesOf(frame[s].existing_tags)

\* C8: from an empty local tag set, a sync against k registry tags that are all described
\* creates exactly those k Tag rows, each with the fetched digest, and returns created = k,
\* updated = 0, deleted = 0.
C8_FirstSyncCreatesAll ==
    \A s \in Services :
        (pc[s] = "stats" /\ frame[s].existing_tags = {} /\ AllDescribed(s)) =>
            /\ NamesOf(RowsOf(s)) = frame[s].tags_list.names
            /\ Cardinality(RowsOf(s)) = Cardinality(frame[s].tags_list.names)
            /\ \A t \in RowsOf(s) :
                  t.digest = Get(AnswerOf(s).manifests[t.name].manifest, "digest", None)
            /\ frame[s].created = Cardinality(frame[s].tags_list.names)
            /\ frame[s].updated = 0
            /\ frame[s].deleted = 0

\* a first sync of two listed and described tags ended
C8_Witness ==
    \E s \in Services :
        /\ pc[s] = "stats"
        /\ frame[s].existing_tags = {}
        /\ AllDescribed(s)
        /\ frame[s].created = 2
        /\ Cardinality(RowsOf(s)) = 2

\* get_manifest raised for a listed tag of the run
ManifestFailed(s) ==
    \E x \in frame[s].tags_list.names : AnswerOf(s).manifests[x].raises

\* C9: a get_manifest failure for one tag does not fail the repository: the remaining tags are
\* still created or updated, the transaction commits, repos_processed grows by 1 and nothing
\* is added to errors or repos_skipped.
C9_ManifestFailureIsLocal ==
    /\ [](\A s \in Services :
            /\ (pc[s] = "raised" /\ frame[s].exc = RegistryError) => frame[s].tags_list.kind = "raises"
            /\ (pc[s] = "transaction" /\ ManifestFailed(s)) =>
                  DOMAIN frame[s].registry_tags =
                     {x \in frame[s].tags_list.names :
                         ~ManifestSkipped(AnswerOf(s).manifests[x])}
            /\ (pc[s] = "stats" /\ ManifestFailed(s)) =>
                  \A x \in DOMAIN frame[s].registry_tags :
                     \E t \in RowsOf(s) :
                        /\ t.name = x
                        /\ t.digest = frame[s].registry_tags[x].digest
                        /\ t.last_synced = now)
    /\ [][\A s \in Services :
            /\ (pc[s] = "fetch" /\ registry[RepoName(frame[s].repository)].tags_list.kind # "raises")
                  => pc'[s] = "transaction"
            /\ (pc[s] = "stats" /\ ManifestFailed(s) /\ pc'[s] # "stats") =>
                  /\ stats'[s].repos_processed = stats[s].repos_processed + 1
                  /\ stats'[s].errors = stats[s].errors
                  /\ stats'[s].repos_skipped = stats[s].repos_skipped]_vars

\* one manifest failed, the other tag of the repository was created and the run was counted
C9_Witness ==
    \E s \in Services :
        /\ pc[s] = "stats"
        /\ ManifestFailed(s)
        /\ frame[s].created = 1
        /\ Cardinality(frame[s].tags_list.names) = 2

\* C10: in every reachable store no two Tag rows have the same (repository, name): creating a
\* second tag with a name already used in the same repository fails with a uniqueness
\* violation and adds no row, while the same name in two different repositories is accepted.
C10_UniquePerRepository ==
    /\ [](unique_repository_name(tags))
    /\ [][orm_result' # orm_result =>
            IF TagsNamed(tags, orm_result'.repository, orm_result'.name) # {}
            THEN orm_result'.exc = IntegrityError /\ tags' = tags
            ELSE orm_result'.exc = None]_vars

\* a create was refused in a repository while another repository holds a tag of the same name
C10_Witness ==
    /\ orm_result.exc = IntegrityError
    /\ \E a, b \in tags :
          /\ a.name = orm_result.name
          /\ b.name = orm_result.name
          /\ a.repository = orm_result.repository
          /\ b.repository # a.repository

\* the Repository rows of a name
RowsNamed(repo_name) == {r \in repositories : r.name = repo_name}

\* sync_repository_by_name has raised out of its lookup
LookupRaised(s) == pc[s] = "raised" /\ frame[s].repo_name # None

\* C11: sync_repository_by_name(name) with no Repository row of that name raises the not-found
\* error to its caller (the service does not catch it), makes no registry call, changes no
\* Tag or Repository row and leaves the service's SyncStats unchanged.
C11_NotFoundRaisedUntouched ==
    /\ [](\A s \in Services :
            /\ (pc[s] \in {"fetch", "transaction", "stats"}) => RowsNamed(RepoName(frame[s].repository)) # {}
            /\ (LookupRaised(s) /\ RowsNamed(frame[s].repo_name) = {}) =>
                  /\ frame[s].exc = DoesNotExist
                  /\ frame[s].tags_list = NoTagsList
                  /\ frame[s].registry_tags = <<>>
                  /\ ~batch[s].active)
    /\ [][\A s \in Services :
            /\ (pc[s] = "idle" /\ pc'[s] = "raised") =>
                  /\ LookupRaised(s)'
                  /\ tags' = tags
                  /\ repositories' = repositories
                  /\ stats' = stats
            /\ (LookupRaised(s) /\ frame[s].exc = DoesNotExist /\ pc'[s] # "raised") =>
                  /\ pc'[s] = "idle"
                  /\ tags' = tags
                  /\ repositories' = repositories
                  /\ stats' = stats]_vars

\* the lookup of a name no row has raised DoesNotExist while the store holds Tag rows and the
\* service has stats from an earlier run
C11_Witness ==
    \E s \in Services :
        /\ LookupRaised(s)
        /\ frame[s].exc = DoesNotExist
        /\ RowsNamed(frame[s].repo_name) = {}
        /\ tags # {}
        /\ stats[s].repos_processed > 0

\* C12: in every store state the constraints allow in which at least one Repository row has
\* the given name, sync_repository_by_name(name) delegates to sync_repository_tags for a row
\* of that name: its lookup fails only when no row has the name.
C12_LookupFailsOnlyWhenAbsent ==
    \A s \in Services :
        LookupRaised(s) => (frame[s].exc = DoesNotExist /\ RowsNamed(frame[s].repo_name) = {})

\* C13: a batch run (sync_all_tags, as started by the sync_tags command without --repo) calls
\* check_health() first and fetches no tag list, no manifest and changes no Tag row unless
\* that probe returned true.
C13_ProbeGatesBatch ==
    \A s \in Services :
        (batch[s].active /\ pc[s] \in {"transaction", "stats", "raised"}) => batch[s].probe = "true"

C14_AllFailed ==
    \E s \in Services :
        batch[s].returned /\ batch[s].exit = CommandError /\ Len(batch[s].attempted) = 2

\* a batch over an empty Repository table
C14_NoRepository ==
    \E s \in Services :
        batch[s].returned /\ batch[s].exit = "success" /\ batch[s].rows = {}

\* C15: no sequence of sync_all_tags, sync_repository_tags and sync_repository_by_name calls,
\* successful or failing, creates, deletes or changes a Repository row.
C15_SyncLeavesRepositories ==
    [][repositories' # repositories =>
          /\ \A s \in Services : pc[s] = "idle" /\ pc'[s] = "idle"
          /\ repo_creates' = repo_creates + 1
          /\ stats' = stats
          /\ calls' = calls]_vars

\* a batch with a failure and a success has returned and left Tag rows, and a lookup by name
\* has then raised
C15_Witness ==
    \E s \in Services :
        /\ LookupRaised(s)
        /\ stats[s].repos_processed >= 1
        /\ stats[s].repos_skipped >= 1
        /\ tags # {}
        /\ Cardinality(repositories) = 2

\* C16: sync_repository_tags(R) creates, updates and deletes only Tag rows whose repository
\* is R: the Tag rows of every other repository are unchanged, whether the sync succeeds or fails.
C16_OtherRepositoriesUntouched ==
    [][\A s \in Services :
          pc[s] \in {"fetch", "transaction", "stats", "raised"} =>
             \A r \in RepoIds \ {frame[s].repository} : TagsOf(tags', r) = TagsOf(tags, r)]_vars

\* a run has deleted a tag whose name another repository holds too
C16_Witness ==
    \E s \in Services :
        /\ pc[s] = "stats"
        /\ \E x \in TagNames :
              /\ "delete" \in {OpsOn(s, x)[i] : i \in DOMAIN OpsOn(s, x)}
              /\ \E t \in tags : t.repository # frame[s].repository /\ t.name = x

\* get_tags_for_repository returned an empty sequence to the run service s is in
EmptyList(s) == frame[s].tags_list.kind = "list" /\ frame[s].tags_list.names = {}

\* C17: when get_tags_for_repository returns an empty sequence the sync is a success: no
\* exception is raised, repos_processed grows by 1, nothing is added to errors, created and
\* updated are 0 and every local Tag row of the repository is deleted; a tag-list fetch
\* failure leaves those rows unchanged.
C17_EmptyListIsSuccess ==
    /\ [](\A s \in Services :
            (pc[s] = "stats" /\ EmptyList(s)) =>
                /\ RowsOf(s) = {}
                /\ frame[s].created = 0
                /\ frame[s].updated = 0
                /\ frame[s].deleted = Cardinality(frame[s].existing_tags))
    /\ [][\A s \in Services :
            /\ (pc[s] = "fetch" /\ AnswerOf(s).tags_list.kind = "list" /\ AnswerOf(s).tags_list.names = {}) =>
                  /\ pc'[s] = "transaction"
                  /\ frame'[s].exc = None
                  /\ frame'[s].registry_tags = <<>>
            /\ (pc[s] = "stats" /\ EmptyList(s) /\ pc'[s] # "stats") =>
                  /\ stats'[s].repos_processed = stats[s].repos_processed + 1
                  /\ stats'[s].errors = stats[s].errors
                  /\ stats'[s].repos_skipped = stats[s].repos_skipped
            /\ (pc[s] = "fetch" /\ AnswerOf(s).tags_list.kind = "raises") =>
                  /\ pc'[s] = "raised"
                  /\ TagsOf(tags', frame[s].repository) = TagsOf(tags, frame[s].repository)]_vars

\* a run against an empty tag list has emptied a repository that held Tag rows
C17_Witness ==
    \E s \in Services :
        /\ pc[s] = "stats"
        /\ EmptyList(s)
        /\ frame[s].existing_tags # {}
        /\ RowsOf(s) = {}

\* the sum of one counter over the iterations that ended "ok"
SumOk(attempted, field) ==
    LET RECURSIVE Sum(_)
        Sum(i) == IF i > Len(attempted) THEN 0
                  ELSE (IF attempted[i].outcome = "ok" THEN attempted[i][field] ELSE 0) + Sum(i + 1)
    IN  Sum(1)

\* C18: tags_created, tags_updated and tags_deleted of the SyncStats returned by sync_all_tags
\* on a fresh SyncService are the sums of the (created, updated, deleted) triples of the
\* repositories that synced successfully in that run; a failed repository adds nothing.
C18_StatsAreSums ==
    /\ [](\A s \in Services :
            (batch[s].returned /\ batch[s].start = SyncStats) =>
                /\ stats[s].tags_created = SumOk(batch[s].attempted, "created")
                /\ stats[s].tags_updated = SumOk(batch[s].attempted, "updated")
                /\ stats[s].tags_deleted = SumOk(batch[s].attempted, "deleted"))
    /\ [][\A s \in Services :
            /\ (pc[s] = "raised" /\ batch[s].active /\ pc'[s] # "raised") =>
                  /\ stats'[s].tags_created = stats[s].tags_created
                  /\ stats'[s].tags_updated = stats[s].tags_updated
                  /\ stats'[s].tags_deleted = stats[s].tags_deleted
            /\ (pc[s] = "stats" /\ pc'[s] # "stats") =>
                  /\ stats'[s].tags_created = stats[s].tags_created + frame[s].created
                  /\ stats'[s].tags_updated = stats[s].tags_updated + frame[s].updated
                  /\ stats'[s].tags_deleted = stats[s].tags_deleted + frame[s].deleted]_vars

\* a fresh service's batch returned after two successful repositories that each created a tag
C18_Witness ==
    \E s \in Services :
        /\ batch[s].returned
        /\ batch[s].start = SyncStats
        /\ Len(batch[s].attempted) = 2
        /\ \A i \in 1..2 : batch[s].attempted[i].outcome = "ok" /\ batch[s].attempted[i].created >= 1
        /\ stats[s].tags_created >= 2

\* C19: in every reachable store no two non-official Repository rows have the same
\* (owner, name) and no two official Repository rows have the same name, whoever their owners.
C19_OfficialNamesUnique ==
    \A a, b \in repositories :
        a.id # b.id =>
            /\ (~a.is_official /\ ~b.is_official) => ~(a.owner = b.owner /\ a.name = b.name)
            /\ (a.is_official /\ b.is_official) => a.name # b.name

\* the listed tags whose get_manifest failed and that have a local row
FailedButLocal(s) ==
    {x \in frame[s].tags_list.names :
        AnswerOf(s).manifests[x].raises /\ x \in NamesOf(frame[s].existing_tags)}

\* C20: if get_manifest fails for a tag name the registry still lists and that has a local
\* Tag row, this sync deletes that row and counts it in deleted, as if the tag had been
\* removed upstream.
C20_FailedManifestDeletesRow ==
    \A s \in Services :
        pc[s] = "stats" =>
            /\ \A x \in FailedButLocal(s) :
                  /\ x \notin NamesOf(RowsOf(s))
                  /\ OpsOn(s, x) = <<"delete">>
                  /\ x \in Orphans(s)
            /\ frame[s].deleted >= Cardinality(FailedButLocal(s))
            /\ frame[s].deleted = Cardinality(Orphans(s))

\* a run ended in which a listed tag with a local row lost that row to a failed manifest
C20_Witness ==
    \E s \in Services :
        /\ pc[s] = "stats"
        /\ FailedButLocal(s) # {}
        /\ frame[s].deleted = Cardinality(FailedButLocal(s))

\* the registry calls in a log, without the marker of the transaction
CallsIn(log) == {i \in 1..Len(log) : log[i].method # "atomic"}

\* where the transaction opened in a log
AtomicIn(log) == {i \in 1..Len(log) : log[i].method = "atomic"}

\* the step of service s that ends its fetch phase
FetchEnds(s) == pc[s] = "fetch" /\ pc'[s] # "fetch"

\* the step of service s that runs its transaction
TransactionRuns(s) == pc[s] = "transaction" /\ pc'[s] # "transaction"

\* C21: in sync_repository_tags every registry call (the tag list and all manifests) is over
\* before the transaction opens: the fetch phase reads and writes no Tag row, the transaction
\* makes no registry call, and a failing tag list raises with no Tag row changed.
C21_FetchBeforeTransaction ==
    [][\A s \in Services :
          /\ FetchEnds(s) =>
                /\ tags' = tags
                /\ frame'[s].existing_tags = NoFrame.existing_tags
                /\ frame'[s].ops = <<>>
                /\ AtomicIn(frame'[s].log) = {}
                /\ frame'[s].tags_list.kind = "raises" => pc'[s] = "raised"
          /\ TransactionRuns(s) =>
                /\ frame'[s].registry_tags = frame[s].registry_tags
                /\ frame'[s].tags_list = frame[s].tags_list
                /\ CallsIn(frame'[s].log) = CallsIn(frame[s].log)
                /\ \A i \in CallsIn(frame'[s].log), j \in AtomicIn(frame'[s].log) : i < j
          /\ pc'[s] = "transaction" => 
                frame'[s].log = RegistryCalls(frame'[s].tags_list,
                                              registry[RepoName(frame'[s].repository)].manifests)]_vars

\* the tag list of a repository with local rows failed: the run raised and the rows are there
C21_Witness ==
    \E s \in Services :
        /\ pc[s] = "raised"
        /\ frame[s].exc = RegistryError
        /\ frame[s].tags_list.kind = "raises"
        /\ RowsOf(s) # {}
        /\ frame[s].log = <<RegistryCall("get_tags_for_repository", None)>>

\* the three name sets partition the names of both sides
Partition(registry_names, existing_names) ==
    LET new == new_tag_names(registry_names, existing_names)
        common == common_tag_names(registry_names, existing_names)
        deleted == deleted_tag_names(registry_names, existing_names)
    IN  /\ new \cap common = {}
        /\ new \cap deleted = {}
        /\ common \cap deleted = {}
        /\ new \cup common \cup deleted = registry_names \cup existing_names

\* C22: for every pair of registry and existing name sets, new_names, common_names and
\* deleted_names are pairwise disjoint and cover the union of the two sets, so in one sync every
\* tag name gets exactly one of create, update-or-heartbeat, delete.
C22_NameSetsPartition ==
    /\ \A registry_names, existing_names \in SUBSET TagNames :
          Partition(registry_names, existing_names)
    /\ \A s \in Services :
          pc[s] = "stats" =>
              LET registry_names == DOMAIN frame[s].registry_tags
                  existing_names == NamesOf(frame[s].existing_tags)
              IN  /\ Partition(registry_names, existing_names)
                  /\ \A x \in registry_names \cup existing_names :
                        /\ Len(OpsOn(s, x)) = 1
                        /\ OpsOn(s, x)[1] = "create" <=> x \in registry_names \ existing_names
                        /\ OpsOn(s, x)[1] \in {"update", "heartbeat"} <=>
                              x \in registry_names \cap existing_names
                        /\ OpsOn(s, x)[1] = "delete" <=> x \in existing_names \ registry_names
                  /\ \A x \in TagNames \ (registry_names \cup existing_names) : OpsOn(s, x) = <<>>

\* one run created a tag, went over a common one or deleted one, with two names in play
C22_Witness ==
    \E s \in Services :
        /\ pc[s] = "stats"
        /\ Len(frame[s].ops) = 2
        /\ frame[s].ops[1].kind # frame[s].ops[2].kind
        /\ \E i \in 1..2 : frame[s].ops[i].kind = "delete"

\* the rows the run found whose digest is the digest fetched for their name
SameDigest(s) ==
    {t \in frame[s].existing_tags :
        /\ t.name \in DOMAIN frame[s].registry_tags
        /\ t.digest = frame[s].registry_tags[t.name].digest}

\* C23: a tag name on both sides whose stored digest equals the fetched digest has only
\* last_synced written: digest, size, os, arch and image_type stay as stored, also when the
\* fetched size or platform differ from the stored ones, and updated is not increased.
C23_HeartbeatWritesLastSyncedOnly ==
    \A s \in Services :
        pc[s] = "stats" =>
            /\ \A t \in SameDigest(s) :
                  /\ TagsNamed(tags, t.repository, t.name) = {[t EXCEPT !.last_synced = now]}
                  /\ \A u \in TagsNamed(tags, t.repository, t.name) : ButLastSynced(u) = ButLastSynced(t)
                  /\ OpsOn(s, t.name) = <<"heartbeat">>
            /\ frame[s].updated =
                  Cardinality({t \in frame[s].existing_tags :
                                  t.name \in DOMAIN frame[s].registry_tags} \ SameDigest(s))

\* a heartbeat for a row whose stored size or os is not the fetched one
C23_Witness ==
    \E s \in Services :
        /\ pc[s] = "stats"
        /\ frame[s].updated = 0
        /\ \E t \in SameDigest(s) :
              /\ \/ t.size # frame[s].registry_tags[t.name].size
                 \/ t.os # frame[s].registry_tags[t.name].os
              /\ t.last_synced # now
              /\ [t EXCEPT !.last_synced = now] \in tags

\* how often a call occurs in a log
TimesCalled(log, call) == Cardinality({i \in 1..Len(log) : log[i] = call})

\* C24: one sync_repository_tags run calls get_tags_for_repository exactly once and get_manifest
\* at most once per listed tag name, a failed call is not repeated in the run, and a batch does
\* not attempt a repository again after its fetch failed.
C24_NoRetry ==
    \A s \in Services :
        /\ pc[s] \in {"transaction", "stats", "raised"} /\ frame[s].repository # NoFrame.repository =>
              /\ TimesCalled(frame[s].log, RegistryCall("get_tags_for_repository", None)) = 1
              /\ \A x \in TagNames :
                    TimesCalled(frame[s].log, RegistryCall("get_manifest", x)) =
                        IF x \in frame[s].tags_list.names THEN 1 ELSE 0
              /\ frame[s].tags_list.kind = "raises" => Len(frame[s].log) = 1
        /\ \A i, j \in 1..Len(batch[s].attempted) :
              (batch[s].attempted[i].repository = batch[s].attempted[j].repository) => i = j
        /\ \A i \in 1..Len(batch[s].attempted) :
              /\ batch[s].active => frame[s].repository # batch[s].attempted[i].repository
              /\ \A k \in 1..Len(batch[s].todo) : batch[s].todo[k] # batch[s].attempted[i].repository

\* in a batch one repository's fetch failed and the next run had a manifest fail, each asked once
C24_Witness ==
    \E s \in Services :
        /\ batch[s].active
        /\ \E i \in 1..Len(batch[s].attempted) : batch[s].attempted[i].outcome = RegistryError
        /\ pc[s] = "stats"
        /\ ManifestFailed(s)
        /\ Len(frame[s].log) = Cardinality(frame[s].tags_list.names) + 2

\* C28: after sync_all_tags on a fresh SyncService over N Repository rows,
\* repos_processed + repos_skipped = N and len(errors) = repos_skipped: every repository is
\* counted once, as processed or as skipped, and every skipped one has one error message.
C28_ProcessedPlusSkippedIsN ==
    \A s \in Services :
        /\ (batch[s].returned /\ batch[s].start = SyncStats) =>
              /\ stats[s].repos_processed + stats[s].repos_skipped = Cardinality(batch[s].rows)
              /\ Len(stats[s].errors) = stats[s].repos_skipped
        /\ (batch[s].active /\ batch[s].start = SyncStats /\ pc[s] = "loop") =>
              /\ stats[s].repos_processed + stats[s].repos_skipped = Len(batch[s].attempted)
              /\ stats[s].repos_processed =
                    Cardinality({i \in 1..Len(batch[s].attempted) : batch[s].attempted[i].outcome = "ok"})
              /\ Len(stats[s].errors) = stats[s].repos_skipped

\* a fresh service's batch over two repositories returned with one processed and one skipped
C28_Witness ==
    \E s \in Services :
        /\ batch[s].returned
        /\ batch[s].start = SyncStats
        /\ Cardinality(batch[s].rows) = 2
        /\ stats[s].repos_processed = 1
        /\ stats[s].repos_skipped = 1

\* is p a prefix of q
IsPrefix(p, q) == Len(p) <= Len(q) /\ \A i \in 1..Len(p) : p[i] = q[i]

\* stats b holds at least what stats a holds
Includes(b, a) ==
    /\ \A i \in 1..4 : Counters(a)[i] <= Counters(b)[i]
    /\ a.repos_skipped <= b.repos_skipped
    /\ IsPrefix(a.errors, b.errors)

\* C29: a SyncService never resets its SyncStats: over any sequence of sync_all_tags,
\* sync_repository_tags and sync_repository_by_name calls every counter is non-decreasing and
\* errors only grows, so the stats a second sync_all_tags returns include those of the first.
C29_StatsNeverReset ==
    [][\A s \in Services :
          /\ Includes(stats'[s], stats[s])
          /\ batch'[s].active => Includes(stats'[s], batch'[s].start)
          /\ batch'[s].returned => Includes(stats'[s], batch'[s].start)]_vars

\* a second sync_all_tags returned on a service whose first batch had recorded an error
C29_Witness ==
    \E s \in Services :
        /\ batch[s].returned
        /\ batch[s].start.errors # <<>>
        /\ batch[s].attempted # <<>>
        /\ stats[s] # batch[s].start

\* the listed tags whose manifest came back but has no usable mediaType
Untyped(s) ==
    {x \in frame[s].tags_list.names :
        /\ ~AnswerOf(s).manifests[x].raises
        /\ Len(Split(Get(AnswerOf(s).manifests[x].manifest, "mediaType", <<>>), ".")) < 3}

\* the answers of the run of s with get_manifest failing for the tag x
WithFailure(s, x) ==
    [AnswerOf(s).manifests EXCEPT ![x] = [raises |-> TRUE, manifest |-> [digest |-> None]]]

\* C30: a manifest that get_manifest returns but whose mediaType is missing or has fewer than
\* three dot-separated parts is handled like a manifest-fetch failure: the tag is left out of
\* the comparison set, a local row of that name is deleted, and the sync ends as a success.
C30_UntypedManifestIsSkipped ==
    \A s \in Services :
        /\ (pc[s] \in {"transaction", "stats"} /\ frame[s].repository # NoFrame.repository) =>
              \A x \in Untyped(s) :
                  /\ x \notin DOMAIN frame[s].registry_tags
                  /\ frame[s].registry_tags = FetchRegistryTags(frame[s].tags_list, WithFailure(s, x))
        /\ pc[s] = "stats" =>
              \A x \in Untyped(s) :
                  /\ x \notin NamesOf(RowsOf(s))
                  /\ x \in NamesOf(frame[s].existing_tags) => OpsOn(s, x) = <<"delete">>
                  /\ x \notin NamesOf(frame[s].existing_tags) => OpsOn(s, x) = <<>>
        /\ (pc[s] = "raised" /\ frame[s].exc = RegistryError) => frame[s].tags_list.kind = "raises"

\* a run ended normally that deleted the local row of a tag whose manifest has a short or
\* missing mediaType
C30_Witness ==
    \E s \in Services :
        /\ pc[s] = "stats"
        /\ frame[s].exc = None
        /\ \E x \in Untyped(s) :
              /\ x \in NamesOf(frame[s].existing_tags)
              /\ x \notin NamesOf(RowsOf(s))
              /\ "mediaType" \in DOMAIN AnswerOf(s).manifests[x].manifest

\* ------------------------------------------------ two runs at the same time
\* Two SyncService instances, each in one sync_repository_tags call, against one database.
\* A run's frame holds what its open transaction has not committed yet: the operations still
\* to do (todo), the tag names it has written (held) and the rows it has for them (written).
Workers == {1, 2}

\* a row a previous sync stored from a manifest
StoredTag(repository, name, manifest) ==
    LET tag_data == TagData(manifest)
    IN  TagRow(repository, name, tag_data.digest, tag_data.size, tag_data.os, tag_data.arch,
               tag_data.image_type, 0)

\* the Tag tables the two runs start from
StoredTags ==
    SUBSET {StoredTag(1, "v1", ManifestImage), StoredTag(1, "v2", ManifestList),
            StoredTag(2, "v1", ManifestOci)}

\* a table seen through the name alone: the writes hide the rows of any repository
ViewByName(rows, repository, held, written) ==
    {t \in rows : t.name \notin held} \cup written

\* what a statement inside the transaction sees: the committed rows, with the rows of the
\* names this transaction has written replaced by its own
View(rows, repository, held, written) ==
    {t \in rows : ~(t.repository = repository /\ t.name \in held)} \cup written

\* a write that never waits for another transaction
NeverBlocked(s, name) == FALSE

\* UniqueConstraint(repository, name): a write on a (repository, name) another open transaction
\* has written waits until that transaction has committed or rolled back
Blocked(s, name) ==
    \E o \in Workers \ {s} :
        /\ pc[o] = "tx"
        /\ frame[o].repository = frame[s].repository
        /\ name \in frame[o].held

ConcInit ==
    /\ registry \in Registries
    /\ repositories = RepositoryTable
    /\ tags \in StoredTags
    /\ now = MaxClock
    /\ stats = [s \in Workers |-> SyncStats]
    /\ pc = [s \in Workers |-> "fetch"]
    /\ batch = [s \in Workers |-> NoBatch]
    /\ \E r \in [Workers -> RepoIdsOf(RepositoryTable)] :
          frame = [s \in Workers |-> [NoFrame EXCEPT !.repository = r[s], !.before = tags]]
    /\ calls = [s \in Workers |-> 1]
    /\ synced = {}
    /\ orm_result = [exc |-> None, repository |-> 0, name |-> None]
    /\ repo_result = NoRepoResult
    /\ repo_creates = 0

\* the transaction opens only when no other run is inside one for the same repository
TxBeginExclusive(s) ==
    /\ pc[s] = "transaction"
    /\ \A o \in Workers \ {s} : ~(pc[o] = "tx" /\ frame[o].repository = frame[s].repository)
    /\ LET existing_tags == TagsOf(tags, frame[s].repository)
       IN  frame' = [frame EXCEPT ![s].existing_tags = existing_tags,
                                  ![s].todo = TransactionOps(frame[s].registry_tags, NamesOf(existing_tags)),
                                  ![s].log = Append(@, RegistryCall("atomic", None))]
    /\ pc' = [pc EXCEPT ![s] = "tx"]
    /\ UNCHANGED <<registry, repositories, tags, now, stats, batch, calls, synced, orm_result, repo_result, repo_creates>>

\* with transaction.atomic(): existing_tags = {tag.name: tag for tag in Tag.objects.filter(...)}
TxBegin(s) ==
    /\ pc[s] = "transaction"
    /\ LET existing_tags == TagsOf(tags, frame[s].repository)
       IN  frame' = [frame EXCEPT ![s].existing_tags = existing_tags,
                                  ![s].todo = TransactionOps(frame[s].registry_tags, NamesOf(existing_tags)),
                                  ![s].log = Append(@, RegistryCall("atomic", None))]
    /\ pc' = [pc EXCEPT ![s] = "tx"]
    /\ UNCHANGED <<registry, repositories, tags, now, stats, batch, calls, synced, orm_result, repo_result, repo_creates>>

\* the next create, save or delete of the three loops, run against the transaction's view
TxApply(s) ==
    /\ pc[s] = "tx"
    /\ frame[s].todo # <<>>
    /\ ~Blocked(s, Head(frame[s].todo).name)
    /\ LET f == frame[s]
           op == Head(f.todo)
           st == [Begin(View(tags, f.repository, f.held, f.written))
                     EXCEPT !.created = f.created, !.updated = f.updated,
                            !.deleted = f.deleted, !.ops = f.ops]
           end == ApplyOp(st, op, f.repository, f.registry_tags, f.existing_tags, now)
           held == f.held \cup {op.name}
       IN  IF end.exc # None
           THEN /\ frame' = [frame EXCEPT ![s].exc = end.exc, ![s].held = {}, ![s].written = {}]
                /\ pc' = [pc EXCEPT ![s] = "raised"]
           ELSE /\ frame' = [frame EXCEPT ![s].todo = Tail(@),
                                          ![s].held = held,
                                          ![s].written = {t \in end.store : t.repository = f.repository
                                                                            /\ t.name \in held},
                                          ![s].created = end.created,
                                          ![s].updated = end.updated,
                                          ![s].deleted = end.deleted,
                                          ![s].ops = end.ops]
                /\ pc' = pc
    /\ UNCHANGED <<registry, repositories, tags, now, stats, batch, calls, synced, orm_result, repo_result, repo_creates>>

\* the with block is left normally: the transaction commits
TxCommit(s) ==
    /\ pc[s] = "tx"
    /\ frame[s].todo = <<>>
    /\ tags' = View(tags, frame[s].repository, frame[s].held, frame[s].written)
    /\ frame' = [frame EXCEPT ![s].held = {}, ![s].written = {}]
    /\ pc' = [pc EXCEPT ![s] = "stats"]
    /\ UNCHANGED <<registry, repositories, now, stats, batch, calls, synced, orm_result, repo_result, repo_creates>>

\* the database fails a statement or the commit (deadlock victim, lock timeout, lost
\* connection): the with block is left by the exception and the transaction rolls back
TxFail(s) ==
    /\ pc[s] = "tx"
    /\ frame' = [frame EXCEPT ![s].exc = DatabaseError, ![s].held = {}, ![s].written = {}]
    /\ pc' = [pc EXCEPT ![s] = "raised"]
    /\ UNCHANGED <<registry, repositories, tags, now, stats, batch, calls, synced, orm_result, repo_result, repo_creates>>

\* what the registry can change to: every repository emptied, or every tag pushed
LaterRegistries ==
    {reg \in Registries :
        /\ reg["app"].tags_list.kind = "list"
        /\ reg["python"].tags_list.kind = "list"
        /\ \/ reg["app"].tags_list.names = {} /\ reg["python"].tags_list.names = {}
           \/ /\ reg["app"].tags_list.names = TagNames
              /\ reg["app"].manifests["v1"] = Ok(ManifestImage)
              /\ reg["python"].tags_list.names = {"v1"}}

\* between the fetch of one run and the fetch of the other the registry's content changes
RegistryChanges ==
    /\ \E s, o \in Workers : pc[s] = "fetch" /\ pc[o] # "fetch"
    /\ registry' \in LaterRegistries \ {registry}
    /\ UNCHANGED <<repositories, tags, now, stats, pc, batch, frame, calls, synced, orm_result, repo_result, repo_creates>>

ConcNext ==
    \/ RegistryChanges
    \/ \E s \in Workers : Fetch(s)
    \/ \E s \in Workers : TxBegin(s)
    \/ \E s \in Workers : TxApply(s)
    \/ \E s \in Workers : TxCommit(s)
    \/ \E s \in Workers : TxFail(s)

ConcSpec == ConcInit /\ [][ConcNext]_vars

\* both runs are over
BothEnded == \A s \in Workers : pc[s] \in {"stats", "raised"}

\* the table after the run of s alone, in one piece, on the table `store`
AfterRun(store, s) ==
    IF pc[s] = "stats"
    THEN Atomic(store, SyncTagsTransaction(store, frame[s].repository, frame[s].registry_tags, 0, now))
    ELSE store

\* the run of s has the operation `op` among those it carried out
Did(s, op) == \E i \in 1..Len(frame[s].ops) : frame[s].ops[i] = op

\* C25: two sync_repository_tags runs on one repository are not mutually excluded: while one is
\* inside its transaction the other can open its own and computes its diff from the same
\* committed Tag rows, and each then applies its own creates, updates and deletes.
C25_NoMutualExclusion ==
    \A s, o \in Workers :
        (s # o /\ frame[s].repository = frame[o].repository) =>
            /\ (pc[s] = "transaction" /\ pc[o] = "tx") => ENABLED TxBegin(s)
            /\ (pc[s] = "tx" /\ pc[o] = "tx" /\ tags = frame[s].before) =>
                  /\ frame[s].existing_tags = frame[o].existing_tags
                  /\ frame[s].todo = SubSeq(TransactionOps(frame[s].registry_tags,
                                                                  NamesOf(frame[o].existing_tags)),
                                                    Len(frame[s].ops) + 1,
                                                    Len(frame[s].ops) + Len(frame[s].todo))

\* both runs read the same rows of one repository and each committed its own update of them
C25_Witness ==
    /\ frame[1].repository = frame[2].repository
    /\ pc[1] = "stats"
    /\ pc[2] = "stats"
    /\ frame[1].existing_tags = frame[2].existing_tags
    /\ frame[1].existing_tags # {}
    /\ frame[1].updated >= 1
    /\ frame[2].updated >= 1
    /\ frame[1].deleted >= 1
    /\ frame[2].deleted >= 1

\* C26: syncs of two different repositories run at the same time, each with its own
\* SyncService, leave the Tag rows as running the two one after the other does, in either
\* order, for every interleaving of their fetch and transaction steps.
C26_DifferentRepositoriesCommute ==
    (BothEnded /\ frame[1].repository # frame[2].repository) =>
        /\ tags = AfterRun(AfterRun(frame[1].before, 1), 2)
        /\ tags = AfterRun(AfterRun(frame[1].before, 2), 1)
        /\ \A s \in Workers :
              LET alone == SyncTagsTransaction(frame[s].before, frame[s].repository,
                                               frame[s].registry_tags, 0, now)
              IN  /\ pc[s] = "stats" =>
                        /\ alone.exc = None
                        /\ <<frame[s].created, frame[s].updated, frame[s].deleted>>
                              = <<alone.created, alone.updated, alone.deleted>>
                        /\ frame[s].ops = alone.ops
                  /\ (pc[s] = "raised" /\ frame[s].exc \notin {DatabaseError, RegistryError}) =>
                        alone.exc = frame[s].exc

\* both repositories were synced at the same time and each run changed rows of its own
C26_Witness ==
    /\ BothEnded
    /\ frame[1].repository # frame[2].repository
    /\ \A s \in Workers :
          /\ pc[s] = "stats"
          /\ frame[s].ops # <<>>
          /\ TagsOf(tags, frame[s].repository) # TagsOf(frame[s].before, frame[s].repository)
          /\ frame[s].existing_tags = TagsOf(frame[s].before, frame[s].repository)

\* C27: under every interleaving of two syncs of one repository no committed table holds two
\* Tag rows with the same (repository, name): when both try to create the same new name at most
\* one transaction commits it, and the other rolls back all its creates, updates and deletes.
C27_UniqueUnderConcurrency ==
    /\ unique_repository_name(tags)
    /\ \A s, o \in Workers :
          (s # o /\ frame[s].repository = frame[o].repository) =>
              /\ \A x \in TagNames :
                    (x \notin NamesOf(frame[s].before) /\ Did(s, Op("create", x)) /\ Did(o, Op("create", x)))
                        => ~(pc[s] = "stats" /\ pc[o] = "stats")
              /\ (BothEnded /\ pc[s] = "raised") => tags = AfterRun(frame[s].before, o)
              /\ pc[s] = "raised" => frame[s].held = {} /\ frame[s].written = {}

\* both runs went to create the same new tag: one committed it, the other got the
\* IntegrityError after a delete of its own, and the table is what the first run alone leaves
C27_Witness ==
    \E s, o \in Workers, x \in TagNames :
        /\ s # o
        /\ frame[s].repository = frame[o].repository
        /\ pc[s] = "stats"
        /\ Did(s, Op("create", x))
        /\ pc[o] = "raised"
        /\ frame[o].exc = IntegrityError
        /\ x \notin NamesOf(frame[o].existing_tags)
        /\ Head(frame[o].todo) = Op("create", x)
        /\ frame[o].ops # <<>>
        /\ Cardinality(TagsNamed(tags, frame[s].repository, x)) = 1

====
